---- MODULE Spec2Model ----
(***************************************************************************)
(* Model of amt/client.py: the AMT client (class Client), its reachability *)
(* probe _awaken_amt, its transport method post, the public operations     *)
(* built on them, and the response extractors _find_value / _return_value. *)
(*                                                                         *)
(* Time is counted in ticks of 0.5 s, the length of the probe's sleep.     *)
(* One client object, used by one caller, one call at a time.              *)
(***************************************************************************)
EXTENDS Integers, Sequences, FiniteSets, TLC

\* ------------------------------------------------------------------ bounds
MaxTimeoutArg == 2      \* largest timeout (seconds) of a direct _awaken_amt call
MaxElems == 2           \* most elements below the root of a response body

\* --------------------------------------------------------- program constants
TicksPerSec == 2        \* time.sleep(0.5): one tick is the retry interval
RetryTicks == 1         \* time.sleep(0.5)
DefaultTimeout == 16    \* def _awaken_amt(self, timeout=16)
RfbLen == 8             \* len(password) != 8, self.password[:8]
HTTP_OK == 200          \* resp.status_code == 200

AMT_PROTOCOL_PORT_MAP == [p \in {"http", "https"} |->
                            IF p = "http" THEN 16992 ELSE 16993]

CIM_PowerManagementService == "CIM_PowerManagementService"
CIM_AssociatedPowerManagementService == "CIM_AssociatedPowerManagementService"
IPS_KVMRedirectionSettingData == "IPS_KVMRedirectionSettingData"
NoNs == "None"          \* post(payload, ns=None)

SOAP_CONTENT_TYPE == "application/soap+xml;charset=UTF-8"
NoContentType == "unset"

\* ------------------------------------------------------------ input domains
Address == "10.0.0.1"                 \* the address the client is built for
Hosts == {Address, "10.0.0.2"}
Ports == {16992, 16993}
Undefined == {}          \* an attribute the instance does not have; {v} when it has value v

\* A password is a sequence of character codes.
Pw(n, base) == [i \in 1..n |-> base + i]
StoredPasswords == {Pw(4, 0), Pw(10, 0)}
\* enable_vnc(password=None): the argument is absent (None) or a string.
NoPassword == [given |-> FALSE, chars |-> <<>>]
Given(s) == [given |-> TRUE, chars |-> s]
PasswordArgs == {NoPassword, Given(<<>>), Given(Pw(4, 100)),
                 Given(Pw(8, 100)), Given(Pw(9, 100))}
BootDevices == {"pxe", "hd"}
TimeoutArgs == (0..MaxTimeoutArg) \cup {DefaultTimeout}

\* How long one connect attempt may last: no time, one tick, or as long as
\* create_connection(..., timeout=timeout) lets it.
ConnectDurations(t) == {0, RetryTicks, t}

StatusCodes == {200, 500}

\* A response body is either not well-formed XML or a document whose root
\* has the listed elements below it, in document order.
NotXml == <<[ns |-> "", tag |-> "#notxml", text |-> ""]>>
Elements ==
  { [ns |-> CIM_PowerManagementService, tag |-> "ReturnValue", text |-> "0"],
    [ns |-> CIM_PowerManagementService, tag |-> "ReturnValue", text |-> "1"],
    [ns |-> CIM_PowerManagementService, tag |-> "ReturnValue", text |-> "x"],
    [ns |-> CIM_AssociatedPowerManagementService, tag |-> "ReturnValue", text |-> "0"],
    [ns |-> CIM_AssociatedPowerManagementService, tag |-> "PowerState", text |-> " 8"] }
XmlBodies == UNION { [1..n -> Elements] : n \in 0..MaxElems }
Bodies == XmlBodies \cup {NotXml}
Responses == [status : StatusCodes, body : Bodies]
WellFormed(body) == body # NotXml

\* ------------------------------------------------------------------ results
\* What a call hands back: an int, None, a string, or a raised exception.
RetInt(n) == [kind |-> "int", val |-> n, text |-> ""]
RetNone == [kind |-> "none", val |-> 0, text |-> ""]
RetStr(s) == [kind |-> "str", val |-> 0, text |-> s]
Raise(e) == [kind |-> "raise", val |-> 0, text |-> e]
NoResult == [kind |-> "pending", val |-> 0, text |-> ""]
Raised(r) == r.kind = "raise"

\* ------------------------------------------------------------------- state
VARIABLES
  uri, username, password,  \* set by Client.__init__
  address, port,            \* instance attributes read by _awaken_amt
  op,                       \* the call in progress: [name, arg]
  pc,                       \* "idle", "loop", "sleep", "probed", "done"
  req,                      \* index of the current request of the call
  payload,                  \* the envelope built for the current request
  timeout, elapsed,         \* _awaken_amt: its timeout and now - start_time
  accepting, upInTime,      \* the target: accepts connects; began before the deadline
  lastConnect,              \* how the probe's latest connect attempt ended
  conn,                     \* the connection create_connection returned to the probe
  trace,                    \* probes and POSTs of the call in progress
  rets,                     \* what each post() of the call returned
  response,                 \* the latest HTTP response
  result                    \* what the call handed back to its caller

vars == <<uri, username, password, address, port, op, pc, req, payload, timeout,
          elapsed, accepting, upInTime, lastConnect, conn, trace, rets, response,
          result>>

client == <<uri, username, password>>
probeVars == <<timeout, elapsed, accepting, upInTime, lastConnect>>

NoOp == [name |-> "none", dev |-> "", pw |-> NoPassword, secs |-> 0]
NoResponse == [status |-> 0, body |-> NotXml]
NoUri == [protocol |-> "", address |-> "", port |-> 0, path |-> ""]
NoPayload == [builder |-> "", uri |-> NoUri, arg |-> "", pw |-> <<>>]

\* Client.__init__: the URI from protocol, address, the mapped port and path.
MkUri(protocol, addr) ==
  [protocol |-> protocol, address |-> addr,
   port |-> AMT_PROTOCOL_PORT_MAP[protocol], path |-> "/wsman"]

Init ==
  /\ \E protocol \in DOMAIN AMT_PROTOCOL_PORT_MAP : uri = MkUri(protocol, Address)
  /\ username = "admin"
  /\ password \in StoredPasswords
  /\ address = Undefined
  /\ port = Undefined
  /\ op = NoOp
  /\ pc = "idle"
  /\ req = 0
  /\ payload = NoPayload
  /\ timeout = 0
  /\ elapsed = 0
  /\ accepting = FALSE
  /\ upInTime = FALSE
  /\ lastConnect = "none"
  /\ conn = "none"
  /\ trace = <<>>
  /\ rets = <<>>
  /\ response = NoResponse
  /\ result = NoResult


\* ------------------------------------------------------- response extractor
\* doc.find('.//{ns}tag'): the first element below the root, in document
\* order, with that namespace and name; 0 when there is none.
FindElem(body, ns, tag) ==
  LET hits == { i \in 1..Len(body) : body[i].ns = ns /\ body[i].tag = tag }
  IN IF hits = {} THEN 0 ELSE CHOOSE i \in hits : \A j \in hits : i <= j

\* int(text): surrounding blanks are ignored, a non-number is a ValueError.
IntOf(text) ==
  CASE text = "0"  -> RetInt(0)
    [] text = "1"  -> RetInt(1)
    [] text = " 8" -> RetInt(8)
    [] OTHER       -> Raise("ValueError")

\* An extractor that takes a missing or unreadable ReturnValue for 0.
ReturnValue_DefaultZero(body, ns) ==
  IF ~WellFormed(body) THEN Raise("ParseError")
  ELSE LET i == FindElem(body, ns, "ReturnValue")
       IN IF i = 0 THEN RetInt(0)
          ELSE IF Raised(IntOf(body[i].text)) THEN RetInt(0)
          ELSE IntOf(body[i].text)

\* _return_value(content, ns)
ReturnValue(body, ns) ==
  IF ~WellFormed(body) THEN Raise("ParseError")
  ELSE LET i == FindElem(body, ns, "ReturnValue")
       IN IF i = 0 THEN Raise("AttributeError") ELSE IntOf(body[i].text)

\* _find_value(content, ns, key)
FindValue(body, ns, key) ==
  IF ~WellFormed(body) THEN Raise("ParseError")
  ELSE LET i == FindElem(body, ns, key)
       IN IF i = 0 THEN Raise("AttributeError") ELSE RetStr(body[i].text)

\* pp_xml(body): minidom parses the body before rendering it.
PpXml(body) ==
  IF ~WellFormed(body) THEN Raise("ExpatError") ELSE RetStr("pretty")

\* ----------------------------------------------------------- Client.post
\* A post() that takes status 200 for success without looking at ReturnValue.
PostReturn_StatusOnly(resp, ns) ==
  IF resp.status = HTTP_OK
  THEN RetInt(0)
  ELSE LET shown == PpXml(resp.body)
       IN IF Raised(shown) THEN shown ELSE RetInt(1)

\* A post() that looks for a ReturnValue even when it was given no namespace.
PostReturn_AlwaysParse(resp, ns) ==
  IF resp.status = HTTP_OK
  THEN LET rv == ReturnValue(resp.body,
                             IF ns # NoNs THEN ns ELSE CIM_PowerManagementService)
       IN IF Raised(rv) THEN rv
          ELSE IF rv.val = 0 THEN RetInt(0)
          ELSE LET shown == PpXml(resp.body)
               IN IF Raised(shown) THEN shown ELSE RetNone
  ELSE LET shown == PpXml(resp.body)
       IN IF Raised(shown) THEN shown ELSE RetInt(1)

\* What post() hands back for a response, after the POST (lines 124-135).
PostReturn(resp, ns) ==
  IF resp.status = HTTP_OK
  THEN IF ns # NoNs
       THEN LET rv == ReturnValue(resp.body, ns)
            IN IF Raised(rv) THEN rv
               ELSE IF rv.val = 0 THEN RetInt(0)
               ELSE LET shown == PpXml(resp.body)
                    IN IF Raised(shown) THEN shown ELSE RetNone
       ELSE RetInt(0)
  ELSE LET shown == PpXml(resp.body)
       IN IF Raised(shown) THEN shown ELSE RetInt(1)

\* ------------------------------------------------------- payload builders
\* The wsman module is external: an envelope is known by the builder that
\* made it and the arguments it was given.
Envelope(builder, u, arg, pw) ==
  [builder |-> builder, uri |-> u, arg |-> arg, pw |-> pw]

\* One request of an operation: its envelope, the namespace handed to post
\* and the code path that sends it.
Request(env, ns, via, ctype) ==
  [payload |-> env, ns |-> ns, via |-> via, ctype |-> ctype]
ViaPost(env, ns) == Request(env, ns, "post", SOAP_CONTENT_TYPE)

\* s[:n]
Take(s, n) == SubSeq(s, 1, IF Len(s) < n THEN Len(s) ELSE n)

\* A resolution that takes any non-empty supplied password as it is.
ResolveRfbPassword_AnySupplied(arg, stored) ==
  IF ~arg.given \/ arg.chars = <<>>
  THEN Take(stored, RfbLen)
  ELSE arg.chars

\* enable_vnc: if not password or len(password) != 8: password = self.password[:8]
ResolveRfbPassword(arg, stored) ==
  IF ~arg.given \/ arg.chars = <<>> \/ Len(arg.chars) # RfbLen
  THEN Take(stored, RfbLen)
  ELSE arg.chars

PowerToken(name) ==
  CASE name = "power_on" -> "on"
    [] name = "power_off" -> "off"
    [] name = "power_cycle" -> "reboot"

PowerOps == {"power_on", "power_off", "power_cycle"}

\* set_next_boot(boot_device): two requests, neither checked by namespace.
SetNextBootPlan(u, dev) ==
  << ViaPost(Envelope("change_boot_order_request", u, dev, <<>>), NoNs),
     ViaPost(Envelope("enable_boot_config_request", u, "", <<>>), NoNs) >>

\* An enable_vnc that sends the KVM-redirect request first.
EnableVncPlan_RedirectFirst(u, arg, stored) ==
  << ViaPost(Envelope("kvm_redirect", u, "", <<>>), NoNs),
     ViaPost(Envelope("enable_remote_kvm", u, "", ResolveRfbPassword(arg, stored)), NoNs) >>

\* enable_vnc(password)
EnableVncPlan(u, arg, stored) ==
  << ViaPost(Envelope("enable_remote_kvm", u, "", ResolveRfbPassword(arg, stored)), NoNs),
     ViaPost(Envelope("kvm_redirect", u, "", <<>>), NoNs) >>

\* The requests an operation sends, in order.
Plan(o, u, stored) ==
  CASE o.name \in PowerOps ->
         << ViaPost(Envelope("power_state_request", u, PowerToken(o.name), <<>>),
                    CIM_PowerManagementService) >>
    [] o.name = "pxe_next_boot" -> SetNextBootPlan(u, "pxe")
    [] o.name = "set_next_boot" -> SetNextBootPlan(u, o.dev)
    [] o.name = "enable_vnc" -> EnableVncPlan(u, o.pw, stored)
    [] o.name = "power_status" ->
         << Request(Envelope("get_request", u, CIM_AssociatedPowerManagementService, <<>>),
                    CIM_AssociatedPowerManagementService, "power_status", NoContentType) >>
    [] o.name = "vnc_status" ->
         << Request(Envelope("get_request", u, IPS_KVMRedirectionSettingData, <<>>),
                    IPS_KVMRedirectionSettingData, "vnc_status", NoContentType) >>
    [] OTHER -> <<>>

\* What the code does with the response of one request.
Consume(r, resp) ==
  CASE r.via = "post" -> PostReturn(resp, r.ns)
    [] r.via = "power_status" -> FindValue(resp.body, r.ns, "PowerState")
    [] r.via = "vnc_status" -> PpXml(resp.body)

\* What the operation returns once its last request has been consumed:
\* the power operations and the two queries return what they computed,
\* set_next_boot, pxe_next_boot and enable_vnc have no return statement.
OpReturn(o, rs) ==
  IF o.name \in PowerOps \cup {"power_status", "vnc_status"}
  THEN rs[Len(rs)]
  ELSE RetNone


\* ------------------------------------------------------------------ history
\* One entry per finished probe and per POST of the call in progress.
ProbeEvent(outcome, r, e) ==
  [ev |-> outcome, req |-> r, err |-> e, host |-> address, port |-> port,
   url |-> uri, ctype |-> NoContentType, user |-> "", pass |-> <<>>,
   body |-> NoPayload]
PostEvent(r, rq, env) ==
  [ev |-> "post", req |-> r, err |-> "", host |-> {uri.address}, port |-> {uri.port},
   url |-> uri, ctype |-> rq.ctype, user |-> username, pass |-> password,
   body |-> env]

\* ------------------------------------------------------------- the caller
\* start_time = now; end_time = start_time + timeout.  The target either
\* accepts connects already or refuses them until it is ready.
StartProbe(t) ==
  /\ timeout' = t
  /\ elapsed' = 0
  /\ \E a \in BOOLEAN : accepting' = a /\ upInTime' = (a /\ 0 < t)
  /\ lastConnect' = "none"
  /\ conn' = "none"
  /\ pc' = "loop"

\* start_time and end_time are locals of _awaken_amt: nothing of a probe is
\* left once the code after it runs.  When the call ends inside the probe,
\* elapsed stays: it is how long the call took.
EndProbe ==
  /\ timeout' = 0
  /\ elapsed' = 0
  /\ accepting' = FALSE
  /\ upInTime' = FALSE
  /\ lastConnect' = "none"

\* The call ends: with what it returned, or with the exception it let through.
Finish(r) ==
  /\ result' = r
  /\ pc' = "done"

Begin(o, t) ==
  /\ pc = "idle"
  /\ op' = o
  /\ req' = 1
  /\ payload' = IF Plan(o, uri, password) = <<>> THEN NoPayload
                 ELSE Plan(o, uri, password)[1].payload
  /\ trace' = <<>>
  /\ rets' = <<>>
  /\ response' = NoResponse
  /\ result' = NoResult
  /\ StartProbe(t)
  /\ UNCHANGED <<client, address, port>>

ProbeTicks == DefaultTimeout * TicksPerSec

power_on == Begin([NoOp EXCEPT !.name = "power_on"], ProbeTicks)
power_off == Begin([NoOp EXCEPT !.name = "power_off"], ProbeTicks)
power_cycle == Begin([NoOp EXCEPT !.name = "power_cycle"], ProbeTicks)
pxe_next_boot == Begin([NoOp EXCEPT !.name = "pxe_next_boot"], ProbeTicks)
set_next_boot ==
  \E dev \in BootDevices :
    Begin([NoOp EXCEPT !.name = "set_next_boot", !.dev = dev], ProbeTicks)
power_status == Begin([NoOp EXCEPT !.name = "power_status"], ProbeTicks)
\* An enable_vnc that writes the resolved password back to self.password.
enable_vnc_StoresResolved ==
  \E arg \in PasswordArgs :
    LET o == [NoOp EXCEPT !.name = "enable_vnc", !.pw = arg]
    IN /\ pc = "idle"
       /\ op' = o
       /\ req' = 1
       /\ payload' = Plan(o, uri, password)[1].payload
       /\ password' = ResolveRfbPassword(arg, password)
       /\ trace' = <<>>
       /\ rets' = <<>>
       /\ response' = NoResponse
       /\ result' = NoResult
       /\ StartProbe(ProbeTicks)
       /\ UNCHANGED <<uri, username, address, port>>

enable_vnc ==
  \E arg \in PasswordArgs :
    Begin([NoOp EXCEPT !.name = "enable_vnc", !.pw = arg], ProbeTicks)
vnc_status == Begin([NoOp EXCEPT !.name = "vnc_status"], ProbeTicks)
\* _awaken_amt called on its own, with a timeout of the caller's choice
awaken_amt ==
  \E secs \in TimeoutArgs :
    Begin([NoOp EXCEPT !.name = "_awaken_amt", !.secs = secs], secs * TicksPerSec)

\* No statement of client.py assigns self.address or self.port; they exist
\* only once code outside the class has assigned them to the instance.
SetEndpointAttrs ==
  /\ pc = "idle"
  /\ \E h \in Hosts, p \in Ports : address' = {h} /\ port' = {p}
  /\ UNCHANGED <<client, op, pc, req, payload, probeVars, conn, trace, rets,
                 response, result>>

\* ------------------------------------------------------ Client._awaken_amt
\* The probe ended by returning after d more ticks: a direct call of
\* _awaken_amt is over, having taken elapsed + d; any other caller goes on
\* to its POST.  The with statement closes sock, the socket that was never
\* connected; the connected socket that create_connection returned is bound
\* to no name and closed by no statement, so it is closed only if the
\* runtime reclaims the unreferenced object at once, and is open otherwise.
ProbeReturns(d) ==
  /\ trace' = Append(trace, ProbeEvent("probe_ok", req, ""))
  /\ \E reclaimed \in BOOLEAN : conn' = IF reclaimed THEN "closed" ELSE "open"
  /\ IF op.name = "_awaken_amt"
     THEN /\ Finish(RetNone)
          /\ elapsed' = elapsed + d
          /\ lastConnect' = "accepted"
          /\ UNCHANGED <<timeout, accepting, upInTime>>
     ELSE /\ pc' = "probed"
          /\ EndProbe
          /\ UNCHANGED result

\* The probe ended by raising e after d more ticks; no caller in client.py
\* catches it, so the call is over, having taken elapsed + d.
ProbeRaises(e, d) ==
  /\ trace' = Append(trace, ProbeEvent("probe_raise", req, e))
  /\ Finish(Raise(e))
  /\ elapsed' = elapsed + d
  /\ lastConnect' = IF e = "OSError" THEN "failed" ELSE lastConnect
  /\ UNCHANGED <<timeout, accepting, upInTime, conn>>

\* A loop whose except clause treats every socket error like a refusal.
Connect_RetryAnyError ==
  /\ pc = "loop"
  /\ elapsed < timeout
  /\ IF address = Undefined \/ port = Undefined
     THEN ProbeRaises("AttributeError", 0)
     ELSE \E d \in ConnectDurations(timeout), failed \in BOOLEAN :
            IF ~failed /\ accepting THEN ProbeReturns(d)
            ELSE /\ pc' = "sleep"
                 /\ elapsed' = elapsed + d
                 /\ lastConnect' = IF failed THEN "failed" ELSE "refused"
                 /\ UNCHANGED <<timeout, accepting, upInTime, conn, trace, result>>
  /\ UNCHANGED <<client, address, port, op, req, payload, rets, response>>

\* while datetime.now() < end_time: one connect attempt.  Reading
\* self.address / self.port comes first; the attempt then lasts d ticks, at
\* most the per-attempt timeout, and is accepted, refused (ECONNREFUSED) or
\* fails with another socket error.
Connect ==
  /\ pc = "loop"
  /\ elapsed < timeout
  /\ IF address = Undefined \/ port = Undefined
     THEN ProbeRaises("AttributeError", 0)
     ELSE \E d \in ConnectDurations(timeout), failed \in BOOLEAN :
            IF failed THEN ProbeRaises("OSError", d)
            ELSE IF accepting THEN ProbeReturns(d)
            ELSE /\ pc' = "sleep"
                 /\ elapsed' = elapsed + d
                 /\ lastConnect' = "refused"
                 /\ UNCHANGED <<timeout, accepting, upInTime, conn, trace, result>>
  /\ UNCHANGED <<client, address, port, op, req, payload, rets, response>>

\* time.sleep(0.5) after a refused attempt
Sleep ==
  /\ pc = "sleep"
  /\ elapsed' = elapsed + RetryTicks
  /\ pc' = "loop"
  /\ UNCHANGED <<client, address, port, op, req, payload, timeout, accepting,
                 upInTime, lastConnect, conn, trace, rets, response, result>>

\* A loop that falls through to the code after the probe when the deadline
\* has passed, instead of raising.
TimeoutRaise_FallThrough ==
  /\ pc = "loop"
  /\ elapsed >= timeout
  /\ op.name # "_awaken_amt"
  /\ trace' = Append(trace, ProbeEvent("probe_raise", req, "AMTTimeout"))
  /\ pc' = "probed"
  /\ EndProbe
  /\ UNCHANGED <<client, address, port, op, req, payload, conn, rets, response,
                 result>>

\* the loop condition fails: raise AMTTimeout
TimeoutRaise ==
  /\ pc = "loop"
  /\ elapsed >= timeout
  /\ ProbeRaises("AMTTimeout", 0)
  /\ UNCHANGED <<client, address, port, op, req, payload, rets, response>>

\* The target becomes ready to accept connections while the probe runs.
AcceptStart ==
  /\ pc \in {"loop", "sleep"}
  /\ ~accepting
  /\ accepting' = TRUE
  /\ upInTime' = (elapsed < timeout)
  /\ UNCHANGED <<client, address, port, op, pc, req, payload, timeout, elapsed,
                 lastConnect, conn, trace, rets, response, result>>

\* ------------------------------------------------------------ the POST
\* A caller that sends the request again when post reports failure.
Continue_RetryOnFailure(r, resp) ==
  LET plan == Plan(op, uri, password)
  IN IF Raised(r)
     THEN /\ Finish(r)
          /\ response' = resp
          /\ UNCHANGED <<req, payload, rets, probeVars, conn>>
     ELSE IF r = RetInt(1)
     THEN /\ pc' = "probed"
          /\ response' = NoResponse
          /\ UNCHANGED <<req, payload, rets, probeVars, conn, result>>
     ELSE /\ rets' = Append(rets, r)
          /\ IF req < Len(plan)
             THEN /\ req' = req + 1
                  /\ payload' = plan[req + 1].payload
                  /\ response' = NoResponse
                  /\ StartProbe(ProbeTicks)
                  /\ UNCHANGED result
             ELSE /\ Finish(OpReturn(op, Append(rets, r)))
                  /\ response' = resp
                  /\ UNCHANGED <<req, payload, probeVars, conn>>

\* After a request has been consumed with outcome r: an exception ends the
\* call, otherwise the next request of the operation starts with its own
\* probe, and after the last one the operation returns.  resp is local to
\* the code that received it: it is gone once a further request starts.
Continue(r, resp) ==
  LET plan == Plan(op, uri, password)
  IN IF Raised(r)
     THEN /\ Finish(r)
          /\ response' = resp
          /\ UNCHANGED <<req, payload, rets, probeVars, conn>>
     ELSE /\ rets' = Append(rets, r)
          /\ IF req < Len(plan)
             THEN /\ req' = req + 1
                  /\ payload' = plan[req + 1].payload
                  /\ response' = NoResponse
                  /\ StartProbe(ProbeTicks)
                  /\ UNCHANGED result
             ELSE /\ Finish(OpReturn(op, Append(rets, r)))
                  /\ response' = resp
                  /\ UNCHANGED <<req, payload, probeVars, conn>>

\* requests.post(...) answers with a status and a body, which the calling
\* code consumes.
Post ==
  /\ pc = "probed"
  /\ \E resp \in Responses :
       /\ trace' = Append(trace, PostEvent(req, Plan(op, uri, password)[req], payload))
       /\ Continue(Consume(Plan(op, uri, password)[req], resp), resp)
  /\ UNCHANGED <<client, address, port, op>>

\* requests.post(...) raises: the transport failed in mid-request.
PostFails ==
  /\ pc = "probed"
  /\ trace' = Append(trace, PostEvent(req, Plan(op, uri, password)[req], payload))
  /\ Finish(Raise("RequestException"))
  /\ UNCHANGED <<client, address, port, op, req, payload, probeVars, conn, rets,
                 response>>

\* The caller has the result and is free to make its next call.
Return ==
  /\ pc = "done"
  /\ pc' = "idle"
  /\ op' = NoOp
  /\ req' = 0
  /\ payload' = NoPayload
  /\ EndProbe
  /\ conn' = "none"
  /\ trace' = <<>>
  /\ rets' = <<>>
  /\ response' = NoResponse
  /\ result' = NoResult
  /\ UNCHANGED <<client, address, port>>

Next ==
  \/ power_on \/ power_off \/ power_cycle
  \/ pxe_next_boot \/ set_next_boot
  \/ power_status \/ enable_vnc \/ vnc_status
  \/ awaken_amt
  \/ SetEndpointAttrs
  \/ Connect \/ Sleep \/ TimeoutRaise \/ AcceptStart
  \/ Post \/ PostFails
  \/ Return

Spec == Init /\ [][Next]_vars


\* ------------------------------------------------------------- properties
\* The call in progress is over and its caller has the outcome.
Done == pc = "done"

\* The call in progress is at a request, Current.
AtRequest == req \in 1..Len(Plan(op, uri, password))
Current == Plan(op, uri, password)[req]

\* The endpoint answered the current request.
Answered == response # NoResponse

\* The text of the first ReturnValue element under namespace ns in a
\* well-formed body is txt.
FirstReturnValueIs(body, ns, txt) ==
  /\ WellFormed(body)
  /\ \E i \in 1..Len(body) :
       /\ body[i].ns = ns /\ body[i].tag = "ReturnValue" /\ body[i].text = txt
       /\ \A j \in 1..(i - 1) : ~(body[j].ns = ns /\ body[j].tag = "ReturnValue")

\* C1: power_on, power_off and power_cycle return 0 exactly when the
\* endpoint answered with status 200 and a body whose ReturnValue under
\* CIM_PowerManagementService is 0; a call that got no answer does not
\* return 0.
C1_PowerSuccessIff ==
  (Done /\ op.name \in PowerOps) =>
    ( result = RetInt(0)
      <=> ( /\ response.status = 200
            /\ FirstReturnValueIs(response.body, CIM_PowerManagementService, "0") ) )

\* A power operation returned 0 on a two-element body whose first element is
\* a ReturnValue of another namespace.
C1_Witness ==
  /\ Done /\ op.name = "power_cycle" /\ result = RetInt(0)
  /\ Len(response.body) = 2
  /\ response.body[1].ns = CIM_AssociatedPowerManagementService

\* C2: post called with a namespace returns the failure code 1, as it does
\* for a non-200 status, when the answer is 200 with a ReturnValue of 1.
C2_NonzeroReturnValueFails ==
  ( /\ Done /\ AtRequest /\ Current.via = "post" /\ Current.ns # NoNs
    /\ response.status = 200
    /\ FirstReturnValueIs(response.body, Current.ns, "1") )
  => (Len(rets) = req /\ rets[req] = RetInt(1))

\* C3: post returns the failure code 1 for every answer whose status is not
\* 200, whatever the body.
C3_Non200Fails ==
  ( /\ Done /\ AtRequest /\ Current.via = "post"
    /\ Answered /\ response.status # 200 )
  => (Len(rets) = req /\ rets[req] = RetInt(1))

\* C4: when the target never accepts and the probe ends in AMTTimeout, the
\* time it took is at least timeout and at most timeout plus one retry
\* interval.
C4_TimeoutWithinOneRetry ==
  (Done /\ result = Raise("AMTTimeout") /\ ~accepting) =>
    (timeout <= elapsed /\ elapsed <= timeout + RetryTicks)

\* C5: when the target starts accepting before the deadline and no connect
\* attempt fails otherwise, _awaken_amt returns normally, no later than the
\* deadline plus one retry interval.
C5_AcceptedWithinOneRetry ==
  ( /\ Done /\ op.name = "_awaken_amt" /\ upInTime
    /\ address # Undefined /\ port # Undefined
    /\ result # Raise("OSError") )
  => (result = RetNone /\ elapsed <= timeout + RetryTicks)

\* C6: in the history of a call, every POST comes right after a successful
\* probe for the same request, a successful probe that is not the first
\* entry comes right after a POST, and a probe that raised is the last
\* entry: the call ended with that very exception and sent no POST for that
\* request.
C6_ProbeBeforeEveryPost ==
  \A i \in 1..Len(trace) :
    /\ trace[i].ev = "post" =>
         (i > 1 /\ trace[i - 1].ev = "probe_ok" /\ trace[i - 1].req = trace[i].req)
    /\ trace[i].ev = "probe_ok" =>
         (i = 1 \/ trace[i - 1].ev = "post")
    /\ trace[i].ev = "probe_raise" =>
         /\ i = Len(trace)
         /\ Done
         /\ result = Raise(trace[i].err)
         /\ \A j \in 1..Len(trace) :
              ~(trace[j].ev = "post" /\ trace[j].req = trace[i].req)

\* A two-request operation whose second probe timed out after the first
\* request had been probed and sent.
C6_Witness ==
  /\ Done /\ op.name = "enable_vnc" /\ result = Raise("AMTTimeout")
  /\ Len(trace) = 3
  /\ trace[1].ev = "probe_ok" /\ trace[2].ev = "post" /\ trace[3].ev = "probe_raise"

\* C7: every probe of a constructed client connects to the host and the
\* port of the client's URI.
C7_ProbeTargetsEndpoint ==
  \A i \in 1..Len(trace) :
    trace[i].ev \in {"probe_ok", "probe_raise"} =>
      (trace[i].host = {uri.address} /\ trace[i].port = {uri.port})

NextBootOps == {"set_next_boot", "pxe_next_boot"}

\* The first request of the call ended in one of the failures: a non-200
\* status, AMTTimeout or a socket error from its probe, an error of its POST.
FirstRequestFailed ==
  \/ (rets # <<>> /\ rets[1] = RetInt(1))
  \/ (req = 1 /\ Answered /\ response.status # 200)
  \/ (req = 1 /\ result \in {Raise("AMTTimeout"), Raise("OSError"),
                             Raise("RequestException")})

\* C8: set_next_boot attempts its second request, enable-boot-config, after
\* its first, change-boot-order, whatever way the first one failed.
C8_SecondRequestAttempted ==
  (Done /\ op.name \in NextBootOps /\ FirstRequestFailed) =>
    (req = 2 /\ payload.builder = "enable_boot_config_request")

\* C9: what set_next_boot and pxe_next_boot return tells whether the second
\* request succeeded: 0, as post does, exactly when it did.
C9_ReportsSecondOutcome ==
  (Done /\ op.name \in NextBootOps /\ Len(rets) = 2) =>
    (result = RetInt(0) <=> rets[2] = RetInt(0))

\* The first n characters of s, or all of s when it is shorter.
FirstChars(s, n) == [i \in 1..(IF Len(s) < n THEN Len(s) ELSE n) |-> s[i]]

\* C10: the enable-remote-KVM envelope of enable_vnc carries the supplied
\* password when one is supplied and is exactly 8 characters long, and the
\* first 8 characters of the stored password in every other case.
C10_RfbPasswordChoice ==
  (op.name = "enable_vnc" /\ req = 1) =>
    /\ payload.builder = "enable_remote_kvm"
    /\ payload.pw = IF op.pw.given /\ Len(op.pw.chars) = 8
                    THEN op.pw.chars
                    ELSE FirstChars(password, 8)
    /\ \A i \in 1..Len(trace) : trace[i].ev = "post" => trace[i].body = payload

\* enable_vnc was given a 9-character password, the stored one has 10, and
\* the enable-remote-KVM request was sent with the first 8 stored characters.
C10_Witness ==
  /\ op.name = "enable_vnc" /\ op.pw = Given(Pw(9, 100)) /\ password = Pw(10, 0)
  /\ Len(trace) >= 2 /\ trace[2].ev = "post"
  /\ trace[2].body.builder = "enable_remote_kvm"
  /\ trace[2].body.pw = Pw(8, 0)

\* C11: the password in the enable-remote-KVM envelope of enable_vnc is
\* exactly 8 characters long, whatever the stored password and the argument.
C11_RfbPasswordHasEightChars ==
  (op.name = "enable_vnc" /\ req = 1) => Len(payload.pw) = 8

\* A well-formed body has no ReturnValue element under namespace ns.
NoReturnValue(body, ns) ==
  /\ WellFormed(body)
  /\ \A i \in 1..Len(body) : ~(body[i].ns = ns /\ body[i].tag = "ReturnValue")

\* C12: a power operation answered with status 200 and a body that has no
\* ReturnValue under CIM_PowerManagementService, or whose ReturnValue there
\* is not an integer, ends in an exception and so never returns 0.
C12_MalformedNeverSucceeds ==
  ( /\ Done /\ op.name \in PowerOps /\ response.status = 200
    /\ \/ NoReturnValue(response.body, CIM_PowerManagementService)
       \/ FirstReturnValueIs(response.body, CIM_PowerManagementService, "x") )
  => (Raised(result) /\ result.text \in {"AttributeError", "ValueError"}
      /\ rets = <<>>)

\* power_on was answered 200 with a ReturnValue of 0 that sits under another
\* namespace only, and ended in an exception.
C12_Witness ==
  /\ Done /\ op.name = "power_on" /\ response.status = 200
  /\ Len(response.body) = 1
  /\ response.body[1] = [ns |-> CIM_AssociatedPowerManagementService,
                         tag |-> "ReturnValue", text |-> "0"]
  /\ result = Raise("AttributeError")

\* The entries of the history that are event ev of request r.
EventsOf(ev, r) == { i \in 1..Len(trace) : trace[i].ev = ev /\ trace[i].req = r }

\* C13: for each request of a call there is at most one POST and one
\* finished probe in the history; there is exactly one POST once the probe
\* has succeeded and the code after it has run, and none otherwise, whatever
\* the answer was (a direct call of _awaken_amt sends nothing).
C13_OnePostPerRequest ==
  \A r \in 1..2 :
    /\ Cardinality(EventsOf("post", r)) <= 1
    /\ Cardinality(EventsOf("probe_ok", r) \cup EventsOf("probe_raise", r)) <= 1
    /\ (EventsOf("post", r) # {})
         <=> ( /\ EventsOf("probe_ok", r) # {}
               /\ op.name # "_awaken_amt"
               /\ ~(pc = "probed" /\ req = r) )

\* set_next_boot is over; its first request was answered with a failure
\* status and was sent once, as was the second.
C13_Witness ==
  /\ Done /\ op.name = "set_next_boot" /\ Len(rets) = 2 /\ rets[1] = RetInt(1)
  /\ Cardinality(EventsOf("post", 1)) = 1
  /\ Cardinality(EventsOf("post", 2)) = 1
  /\ response.status = 200 /\ response.body = NotXml

\* After a connect attempt that failed with an error other than a refusal
\* the call is over with that error, as the last entry of the history says.
FailedConnectEndsCall ==
  lastConnect = "failed" =>
    /\ Done
    /\ result = Raise("OSError")
    /\ trace # <<>>
    /\ trace[Len(trace)].ev = "probe_raise"
    /\ trace[Len(trace)].err = "OSError"

\* The probe sleeps only after a refused attempt, with the call still running.
SleepOnlyAfterRefusal ==
  pc = "sleep" => (lastConnect = "refused" /\ result = NoResult)

\* A sleep lasts one retry interval and leads back to the loop condition;
\* from there the probe makes another attempt only before the deadline and
\* raises AMTTimeout otherwise.
SleepThenRetry ==
  /\ (pc = "sleep" /\ pc' # "sleep") =>
       (pc' = "loop" /\ elapsed' = elapsed + RetryTicks /\ lastConnect' = "refused")
  /\ (pc = "loop" /\ lastConnect = "refused" /\ pc' # "loop") =>
       IF elapsed < timeout
       THEN result' # Raise("AMTTimeout")
       ELSE result' = Raise("AMTTimeout")

\* C14: in _awaken_amt a connect attempt that fails with an error other
\* than connection-refused ends the call at once with that error: no sleep,
\* no further attempt, no AMTTimeout.  Only a refused attempt is followed by
\* a sleep of one retry interval and, before the deadline, another attempt.
C14_OnlyRefusalRetries ==
  /\ [](FailedConnectEndsCall /\ SleepOnlyAfterRefusal)
  /\ [][SleepThenRetry]_vars

\* A probe that was refused and slept, then met another socket error and
\* ended with it.
C14_Witness ==
  /\ Done /\ lastConnect = "failed" /\ result = Raise("OSError")
  /\ elapsed > RetryTicks /\ elapsed < timeout

\* C15: once the probe has returned, the connection it opened is closed: it
\* is not open while the POST that follows is sent, nor after a direct call
\* of _awaken_amt has returned.
C15_ProbeLeavesNoOpenSocket ==
  (pc = "probed" \/ (Done /\ op.name = "_awaken_amt" /\ result = RetNone))
    => conn = "closed"

\* C16: a request sent by post without a namespace and answered with status
\* 200 makes post return 0 whatever the body is, a body that is not XML
\* included; such an answer never ends the call with an exception.
C16_NoNamespaceStatusOnly ==
  ( /\ Done /\ AtRequest /\ Current.via = "post" /\ Current.ns = NoNs
    /\ response.status = 200 )
  => (Len(rets) = req /\ rets[req] = RetInt(0) /\ ~Raised(result))

\* enable_vnc is over: its second request was answered 200 with a body that
\* is not XML, and post returned 0 for it.
C16_Witness ==
  /\ Done /\ op.name = "enable_vnc" /\ req = 2
  /\ response = [status |-> 200, body |-> NotXml]
  /\ rets = <<RetInt(0), RetInt(0)>>

\* C17: no step of any operation, whatever its outcome, changes the
\* client's URI, username or password.
C17_ClientFieldsNeverChange ==
  [][uri' = uri /\ username' = username /\ password' = password]_vars

\* enable_vnc has run to its end with a 4-character argument and a stored
\* password of 10 characters, which is still the stored password.
C17_Witness ==
  /\ Done /\ op.name = "enable_vnc" /\ op.pw = Given(Pw(4, 100))
  /\ Len(rets) = 2
  /\ trace[2].body.pw = Pw(8, 0)
  /\ password = Pw(10, 0)

\* C18: every POST of every operation goes to the client's URI with the
\* SOAP content-type header, Digest credentials equal to the stored
\* username and password, and the envelope built for its request as body.
C18_EveryPostWellFormed ==
  \A i \in 1..Len(trace) :
    trace[i].ev = "post" =>
      /\ trace[i].url = uri
      /\ trace[i].ctype = SOAP_CONTENT_TYPE
      /\ trace[i].user = username
      /\ trace[i].pass = password
      /\ trace[i].body = Plan(op, uri, password)[trace[i].req].payload

\* The builders of the envelopes POSTed so far, in the order they were sent.
RECURSIVE PostedFrom(_)
PostedFrom(i) ==
  IF i > Len(trace) THEN <<>>
  ELSE IF trace[i].ev = "post"
       THEN <<trace[i].body.builder>> \o PostedFrom(i + 1)
       ELSE PostedFrom(i + 1)
Posted == PostedFrom(1)

KvmRequests == <<"enable_remote_kvm", "kvm_redirect">>

C20_ThreeOutcomesInTime ==
  (Done /\ op.name = "_awaken_amt") =>
    /\ result \in {RetNone, Raise("AMTTimeout"), Raise("OSError")}
    /\ elapsed <= 2 * timeout + RetryTicks
    /\ timeout = 0 => (result = Raise("AMTTimeout") /\ elapsed = 0)

====
